---- MODULE Spec2Model ----
(***************************************************************************)
(* A model of py-typechecker (src/typechecker): the validator registry     *)
(* get_type_checker, the validators TypeChecker / TupleTypeChecker /       *)
(* ListTypeChecker / DictTypeChecker / SetTypeChecker / EmptyTypeChecker,  *)
(* the error chaining helper do_type_check and the call checker            *)
(* FuncCallTypeChecker.                                                    *)
(***************************************************************************)
EXTENDS Integers, Sequences, FiniteSets, TLC

(***************************************************************************)
(* Bounds of the model.                                                    *)
(***************************************************************************)
MaxLen == 3
MaxArgs == 3
MaxKw == 3

VARIABLES cache, heap, last, fc, invoked, threads

vars == <<cache, heap, last, fc, invoked, threads>>

(***************************************************************************)
(* Type descriptions (annotations).  k is the shape typing gives the       *)
(* annotation: a plain class, typing.Any / typing.NoReturn / None, a       *)
(* _VariadicGenericAlias (bare typing.Tuple), or a subscripted             *)
(* _GenericAlias with an __origin__ (name) and __args__ (args).            *)
(***************************************************************************)
Class(n) == [k |-> "class", name |-> n, args |-> <<>>]
IntT == Class("int")
FloatT == Class("float")
StrT == Class("str")
AnyT == [k |-> "Any", name |-> "Any", args |-> <<>>]
NoReturnT == [k |-> "NoReturn", name |-> "NoReturn", args |-> <<>>]
NoneT == [k |-> "None", name |-> "None", args |-> <<>>]
BareTupleT == [k |-> "variadic", name |-> "tuple", args |-> <<>>]
Alias(origin, as) == [k |-> "alias", name |-> origin, args |-> as]
TupleT(as) == Alias("tuple", as)
ListT(t) == Alias("list", <<t>>)
DictT(kt, vt) == Alias("dict", <<kt, vt>>)
SetT(t) == Alias("set", <<t>>)
FrozenSetT(t) == Alias("frozenset", <<t>>)

(***************************************************************************)
(* Runtime values.  t is the class of the object; v is the payload of a    *)
(* scalar (numbers in tenths, so that 1.1 is 11); items are the elements   *)
(* of a tuple, list or set in iteration order, or the values of a dict     *)
(* whose keys, in insertion order, are keys.                               *)
(***************************************************************************)
Scalar(t, v) == [t |-> t, v |-> v, keys |-> <<>>, items |-> <<>>]
PyInt(n) == Scalar("int", 10 * n)
PyFloat(tenths) == Scalar("float", tenths)
PyStr(n) == Scalar("str", n)
PyBool(b) == Scalar("bool", 10 * b)
PyNone == Scalar("NoneType", 0)
NoVal == Scalar("<no value>", 0)
PyTuple(xs) == [t |-> "tuple", v |-> 0, keys |-> <<>>, items |-> xs]
PyList(xs) == [t |-> "list", v |-> 0, keys |-> <<>>, items |-> xs]
PySet(xs) == [t |-> "set", v |-> 0, keys |-> <<>>, items |-> xs]
PyDict(ks, xs) == [t |-> "dict", v |-> 0, keys |-> ks, items |-> xs]

\* issubclass(t, cls) for the classes of the model: bool derives from int.
issubclass(t, cls) ==
    \/ t = cls
    \/ cls = "object"
    \/ (t = "bool" /\ cls = "int")

isinstance(obj, cls) == issubclass(obj.t, cls)

(***************************************************************************)
(* Outcomes of running a validator: exc is "none", "TypeCheckError" or     *)
(* "TypeError"; ret the returned object; msgs the chain of messages from   *)
(* the outermost TypeCheckError down its __cause__ links, each the format  *)
(* string (text) with the index (idx, -1 when none) or the name it is      *)
(* formatted with; log the calls of do_type_check made, in order.          *)
(***************************************************************************)
Msg(text, idx, name) == [text |-> text, idx |-> idx, name |-> name]
Returns(obj, log) == [exc |-> "none", ret |-> obj, msgs |-> <<>>, log |-> log]
Raises(exc, msgs, log) == [exc |-> exc, ret |-> NoVal, msgs |-> msgs, log |-> log]
LogEntry(checker, obj, message) == [checker |-> checker, obj |-> obj, message |-> message]

MsgExpect == "Expect: \"{expect_type}\".\nActual \"{actual_type}({obj})\".\n"
MsgLength == "Length of the tuple mismatch!"
MsgElem == "The #{} element has incompatible type!"
MsgKey == "Found a key that has incompatible type!"
MsgVal == "Found a value that has incompatible type!"
MsgSetElem == "Found an element that has incompatible type!"

\* F applied to the value of v, v being computed once (a LET definition is
\* computed anew at each of its uses).
Let(v, F(_)) == CHOOSE y \in {F(x) : x \in {v}} : TRUE

\* TypeChecker.raise_error
raise_error(obj, msg) ==
    Raises("TypeCheckError",
           <<IF msg = "" THEN Msg(MsgExpect, -1, obj.t) ELSE Msg(msg, -1, "")>>,
           <<>>)

\* The singleton EmptyTypeChecker is created when the module is imported.
EmptyTypeChecker == 1

RECURSIVE checker_call(_, _, _)
RECURSIVE do_type_check(_, _, _, _)
RECURSIVE TupleLoop(_, _, _, _, _)
RECURSIVE ListLoop(_, _, _, _, _)
RECURSIVE DictLoop(_, _, _, _, _, _)
RECURSIVE SetLoop(_, _, _, _, _)

\* TypeChecker.__call__: isinstance(obj, self._type).  isinstance accepts a
\* class or an unsubscripted typing alias and raises TypeError for a
\* subscripted generic.
TypeChecker_call(self, obj) ==
    IF self.type.k \in {"class", "variadic"}
    THEN IF ~ isinstance(obj, self.type.name)
         THEN raise_error(obj, "")
         ELSE Returns(obj, <<>>)
    ELSE Raises("TypeError", <<>>, <<>>)

\* do_type_check: run the checker; a TypeCheckError is wrapped in a new one
\* carrying message and chained to the original.
do_type_check(hp, checker, obj, message) ==
    Let(checker_call(hp, checker, obj), LAMBDA r :
        LET entry == LogEntry(checker, obj, message)
        IN  IF r.exc = "TypeCheckError"
            THEN Raises("TypeCheckError", <<message>> \o r.msgs, <<entry>> \o r.log)
            ELSE [r EXCEPT !.log = <<entry>> \o r.log])

\* The loop of TupleTypeChecker.__call__, from the 1-based position i.
TupleLoop(hp, kids, obj, i, log) ==
    IF i > Len(kids) THEN Returns(obj, log)
    ELSE Let(do_type_check(hp, kids[i], obj.items[i], Msg(MsgElem, i - 1, "")), LAMBDA r :
            IF r.exc # "none"
            THEN Raises(r.exc, r.msgs, log \o r.log)
            ELSE TupleLoop(hp, kids, obj, i + 1, log \o r.log))

\* TupleTypeChecker.__call__ with the length test weakened to `<`.
TupleTypeChecker_call_short_only(hp, self, obj) ==
    IF ~ isinstance(obj, "tuple") THEN raise_error(obj, "")
    ELSE IF Len(obj.items) < Len(self.kids) THEN raise_error(obj, MsgLength)
    ELSE TupleLoop(hp, self.kids, obj, 1, <<>>)

TupleTypeChecker_call(hp, self, obj) ==
    IF ~ isinstance(obj, "tuple") THEN raise_error(obj, "")
    ELSE IF Len(obj.items) # Len(self.kids) THEN raise_error(obj, MsgLength)
    ELSE TupleLoop(hp, self.kids, obj, 1, <<>>)

RECURSIVE ListLoop_checks_all(_, _, _, _, _)
\* The loop of ListTypeChecker.__call__ going on after a failing element and
\* raising for the last failing one.
ListLoop_checks_all(hp, checker, obj, i, log) ==
    IF i > Len(obj.items) THEN Returns(obj, log)
    ELSE Let(do_type_check(hp, checker, obj.items[i], Msg(MsgElem, i - 1, "")), LAMBDA r :
            Let(ListLoop_checks_all(hp, checker, obj, i + 1, log \o r.log), LAMBDA rest :
                IF rest.exc # "none" THEN rest
                ELSE IF r.exc # "none" THEN Raises(r.exc, r.msgs, rest.log)
                ELSE rest))

\* The loop of ListTypeChecker.__call__, from the 1-based position i.
ListLoop(hp, checker, obj, i, log) ==
    IF i > Len(obj.items) THEN Returns(obj, log)
    ELSE Let(do_type_check(hp, checker, obj.items[i], Msg(MsgElem, i - 1, "")), LAMBDA r :
            IF r.exc # "none"
            THEN Raises(r.exc, r.msgs, log \o r.log)
            ELSE ListLoop(hp, checker, obj, i + 1, log \o r.log))

ListTypeChecker_call(hp, self, obj) ==
    IF ~ isinstance(obj, "list") THEN raise_error(obj, "")
    ELSE ListLoop(hp, self.kids[1], obj, 1, <<>>)

RECURSIVE DictLoop_value_first(_, _, _, _, _, _)
\* The loop of DictTypeChecker.__call__ checking the value before the key.
DictLoop_value_first(hp, key_checker, val_checker, obj, i, log) ==
    IF i > Len(obj.keys) THEN Returns(obj, log)
    ELSE Let(do_type_check(hp, val_checker, obj.items[i], Msg(MsgVal, -1, "")), LAMBDA rv :
            IF rv.exc # "none"
            THEN Raises(rv.exc, rv.msgs, log \o rv.log)
            ELSE Let(do_type_check(hp, key_checker, obj.keys[i], Msg(MsgKey, -1, "")),
                     LAMBDA rk :
                        IF rk.exc # "none"
                        THEN Raises(rk.exc, rk.msgs, log \o rv.log \o rk.log)
                        ELSE DictLoop_value_first(hp, key_checker, val_checker, obj, i + 1,
                                                  log \o rv.log \o rk.log)))

\* The loop of DictTypeChecker.__call__ over obj.items(), from entry i.
DictLoop(hp, key_checker, val_checker, obj, i, log) ==
    IF i > Len(obj.keys) THEN Returns(obj, log)
    ELSE Let(do_type_check(hp, key_checker, obj.keys[i], Msg(MsgKey, -1, "")), LAMBDA rk :
            IF rk.exc # "none"
            THEN Raises(rk.exc, rk.msgs, log \o rk.log)
            ELSE Let(do_type_check(hp, val_checker, obj.items[i], Msg(MsgVal, -1, "")),
                     LAMBDA rv :
                        IF rv.exc # "none"
                        THEN Raises(rv.exc, rv.msgs, log \o rk.log \o rv.log)
                        ELSE DictLoop(hp, key_checker, val_checker, obj, i + 1,
                                      log \o rk.log \o rv.log)))

DictTypeChecker_call(hp, self, obj) ==
    IF ~ isinstance(obj, "dict") THEN raise_error(obj, "")
    ELSE DictLoop(hp, self.kids[1], self.kids[2], obj, 1, <<>>)

\* The loop of SetTypeChecker.__call__, over the set's iteration order.
SetLoop(hp, checker, obj, i, log) ==
    IF i > Len(obj.items) THEN Returns(obj, log)
    ELSE Let(do_type_check(hp, checker, obj.items[i], Msg(MsgSetElem, -1, "")), LAMBDA r :
            IF r.exc # "none"
            THEN Raises(r.exc, r.msgs, log \o r.log)
            ELSE SetLoop(hp, checker, obj, i + 1, log \o r.log))

SetTypeChecker_call(hp, self, obj) ==
    IF ~ isinstance(obj, "set") THEN raise_error(obj, "")
    ELSE SetLoop(hp, self.kids[1], obj, 1, <<>>)

\* EmptyTypeChecker.__call__
EmptyTypeChecker_call(obj) == Returns(obj, <<>>)

\* checker(obj): dispatch on the class of the validator hp[checker].
checker_call(hp, checker, obj) ==
    LET self == hp[checker]
    IN  CASE self.cls = "TypeChecker" -> TypeChecker_call(self, obj)
          [] self.cls = "TupleTypeChecker" -> TupleTypeChecker_call(hp, self, obj)
          [] self.cls = "ListTypeChecker" -> ListTypeChecker_call(hp, self, obj)
          [] self.cls = "DictTypeChecker" -> DictTypeChecker_call(hp, self, obj)
          [] self.cls = "SetTypeChecker" -> SetTypeChecker_call(hp, self, obj)
          [] self.cls = "EmptyTypeChecker" -> EmptyTypeChecker_call(obj)

(***************************************************************************)
(* The registry.  heap holds every validator object ever created, a        *)
(* validator's identity being its position in heap; cache is               *)
(* get_type_checker._cache, a function from descriptions to identities.    *)
(* The operators take and return a record [cache, heap] (and ret).         *)
(***************************************************************************)
Object(cls, type) == [cls |-> cls, type |-> type, kids |-> <<>>]

\* TypeChecker.__init__: a new object with _type set.
TypeChecker_init(R, cls, type) ==
    [cache |-> R.cache, heap |-> Append(R.heap, Object(cls, type)), ret |-> Len(R.heap) + 1]

\* alias_checkers of create_type_checker
alias_checkers ==
    [origin \in {"tuple", "list", "dict", "set"} |->
        CASE origin = "tuple" -> "TupleTypeChecker"
          [] origin = "list" -> "ListTypeChecker"
          [] origin = "dict" -> "DictTypeChecker"
          [] origin = "set" -> "SetTypeChecker"]

RECURSIVE get_type_checker(_, _)
RECURSIVE get_elem_checkers(_, _, _)

\* get_type_checker(t) for each t of ts, left to right.
get_elem_checkers(R, ts, acc) ==
    IF ts = <<>> THEN [cache |-> R.cache, heap |-> R.heap, ret |-> acc]
    ELSE Let(get_type_checker(R, Head(ts)), LAMBDA c :
            get_elem_checkers(c, Tail(ts), Append(acc, c.ret)))

\* __init__ of TupleTypeChecker, ListTypeChecker, DictTypeChecker and
\* SetTypeChecker: super().__init__, then the child validators of
\* __args__ (all of them for a tuple, the first for a list or set, the first
\* two for a dict).
ContainerTypeChecker_init(R, cls, type) ==
    LET ts == CASE cls = "TupleTypeChecker" -> type.args
                [] cls = "DictTypeChecker" -> <<type.args[1], type.args[2]>>
                [] OTHER -> <<type.args[1]>>
    IN  Let(TypeChecker_init(R, cls, type), LAMBDA self :
            Let(get_elem_checkers(self, ts, <<>>), LAMBDA k :
                [cache |-> k.cache,
                 heap |-> [k.heap EXCEPT ![self.ret].kids = k.ret],
                 ret |-> self.ret]))

create_type_checker(R, type) ==
    IF type.k = "variadic" THEN TypeChecker_init(R, "TypeChecker", type)
    ELSE IF type.k = "alias" /\ type.name \in DOMAIN alias_checkers
    THEN ContainerTypeChecker_init(R, alias_checkers[type.name], type)
    ELSE IF type = AnyT \/ type = NoReturnT \/ type = NoneT
    THEN [cache |-> R.cache, heap |-> R.heap, ret |-> EmptyTypeChecker]
    ELSE TypeChecker_init(R, "TypeChecker", type)

\* get_type_checker without the membership test: a new validator per call.
get_type_checker_no_test(R, type) ==
    Let(create_type_checker(R, type), LAMBDA c :
        LET cache2 == (type :> c.ret) @@ c.cache
        IN  [cache |-> cache2, heap |-> c.heap, ret |-> cache2[type]])

get_type_checker(R, type) ==
    IF type \notin DOMAIN R.cache
    THEN Let(create_type_checker(R, type), LAMBDA c :
            LET cache2 == (type :> c.ret) @@ c.cache
            IN  [cache |-> cache2, heap |-> c.heap, ret |-> cache2[type]])
    ELSE [cache |-> R.cache, heap |-> R.heap, ret |-> R.cache[type]]

\* The state of the module after import: an empty cache and the singleton.
EmptyCache == [d \in {} |-> 0]
ImportedHeap == <<Object("EmptyTypeChecker", AnyT)>>
Imported == [cache |-> EmptyCache, heap |-> ImportedHeap]

(***************************************************************************)
(* FuncCallTypeChecker.  A callable is given by what                       *)
(* inspect.getfullargspec reports of it: args, varargs, varkw, defaults,   *)
(* kwonlyargs, kwonlydefaults (a dict, here the sequence of its items) and *)
(* annotations (a dict, here a function), and by its body.                 *)
(***************************************************************************)
NoName == "<None>"
Range(f) == {f[i] : i \in DOMAIN f}
Item(name, value) == [name |-> name, value |-> value]
Names(items) == {items[i].name : i \in DOMAIN items}
Lookup(items, name) == items[CHOOSE i \in DOMAIN items : items[i].name = name].value

MsgPosDefault == "Positional argument \"{}\" has an incompatible default value!"
MsgKwDefault == "Keyword-only argument \"{}\" has an incompatible default value!"
MsgPosArg == "Positional argument \"{}\" takes a incompatible value!"
MsgVarArg == "#{} positional argument takes a incompatible value"
MsgKwArg == "Keyword argument \"{}\" takes a incompatible value!"
MsgReturn == "Return a incompatible value!"

\* dict.get(key): the value, or None when the key is absent; never KeyError.
dict_get(annotations, arg_name) ==
    IF arg_name \in DOMAIN annotations THEN annotations[arg_name] ELSE NoneT

\* seq[start:stop] of Python for a sequence and (possibly negative) bounds.
PySlice(seq, start, stop) ==
    LET n == Len(seq)
        norm(i) == IF i < 0 THEN (IF n + i < 0 THEN 0 ELSE n + i)
                   ELSE (IF i > n THEN n ELSE i)
        lo == norm(start)
        hi == norm(stop)
    IN  IF lo >= hi THEN <<>> ELSE SubSeq(seq, lo + 1, hi)

\* zip(names, values) as the items of the dict built from it.
zip(names, values) ==
    LET n == IF Len(names) < Len(values) THEN Len(names) ELSE Len(values)
    IN  [i \in 1..n |-> Item(names[i], values[i])]

\* create_checker of FuncCallTypeChecker.__init__.  annotations.get cannot
\* raise KeyError, so the handler that looks at force_annotation never runs.
create_checker(R, argspec, force_annotation, arg_name) ==
    LET annotation == dict_get(argspec.annotations, arg_name)
    IN  get_type_checker(R, annotation)

RECURSIVE create_checker_dict(_, _, _, _, _)
\* create_checker_dict: the OrderedDict from the names to their checkers.
create_checker_dict(R, argspec, force_annotation, arg_name_list, acc) ==
    IF arg_name_list = <<>> THEN [cache |-> R.cache, heap |-> R.heap, ret |-> acc]
    ELSE Let(create_checker(R, argspec, force_annotation, Head(arg_name_list)), LAMBDA c :
            create_checker_dict(c, argspec, force_annotation, Tail(arg_name_list),
                                Append(acc, Item(Head(arg_name_list), c.ret))))

RECURSIVE DefaultsLoop(_, _, _, _)
\* The two loops of __init__ over the defaults, one after the other: checks
\* lists, for each default of self._arg_defaults and then of
\* self._kw_defaults, the checker of its name, the default and the message.
DefaultsLoop(hp, checks, i, log) ==
    IF i > Len(checks) THEN Returns(NoVal, log)
    ELSE Let(do_type_check(hp, checks[i].checker, checks[i].value, checks[i].message), LAMBDA r :
            IF r.exc # "none"
            THEN Raises(r.exc, r.msgs, log \o r.log)
            ELSE DefaultsLoop(hp, checks, i + 1, log \o r.log))

\* The do_type_check calls for the items defaults, with the checkers of the
\* OrderedDict checkers.
DefaultChecks(checkers, defaults, text) ==
    [i \in DOMAIN defaults |->
        [checker |-> Lookup(checkers, defaults[i].name),
         value |-> defaults[i].value,
         message |-> Msg(text, -1, defaults[i].name)]]

\* FuncCallTypeChecker.__init__: the registry after it, the outcome res and,
\* when no exception was raised, the object self.  The checkers are created
\* in the order of the code: positional names, keyword-only names, *args,
\* **kwargs, return.
FuncCallTypeChecker_init(R, func, check_args, check_return, force_annotation) ==
    LET argspec == func
        na == Len(argspec.args)
        nk == Len(argspec.kwonlyargs)
        arg_defaults == zip(PySlice(argspec.args, 0 - Len(argspec.defaults), 0),
                            argspec.defaults)
        kw_defaults == argspec.kwonlydefaults
    IN  Let(create_checker_dict(R, argspec, force_annotation,
                                argspec.args \o argspec.kwonlyargs
                                \o <<argspec.varargs, argspec.varkw, "return">>, <<>>),
            LAMBDA cs :
        LET arg_checkers == SubSeq(cs.ret, 1, na)
            kw_checkers == SubSeq(cs.ret, na + 1, na + nk)
        IN  Let(DefaultsLoop(cs.heap,
                             DefaultChecks(arg_checkers, arg_defaults, MsgPosDefault)
                             \o DefaultChecks(kw_checkers, kw_defaults, MsgKwDefault),
                             1, <<>>),
                LAMBDA res :
            [cache |-> cs.cache, heap |-> cs.heap, res |-> res,
             self |-> IF res.exc # "none" THEN [state |-> "failed"]
                      ELSE [state |-> "built", func |-> func,
                            check_args |-> check_args, check_return |-> check_return,
                            arg_checkers |-> arg_checkers, kw_checkers |-> kw_checkers,
                            varg_checker |-> cs.ret[na + nk + 1].value,
                            vkw_checker |-> cs.ret[na + nk + 2].value,
                            ret_checker |-> cs.ret[na + nk + 3].value,
                            arg_defaults |-> arg_defaults, kw_defaults |-> kw_defaults]]))

RECURSIVE PosLoop(_, _, _, _, _)
RECURSIVE VarLoop(_, _, _, _, _)
RECURSIVE KwLoop(_, _, _, _, _)

\* The loop over self._arg_checkers.items(): stops when the positional
\* arguments run out; returns with ret the number of arguments checked.
PosLoop(hp, self, args, i, log) ==
    IF i > Len(self.arg_checkers) \/ i - 1 = Len(args) THEN [Returns(NoVal, log) EXCEPT !.ret = i - 1]
    ELSE Let(do_type_check(hp, self.arg_checkers[i].value, args[i],
                                Msg(MsgPosArg, -1, self.arg_checkers[i].name)), LAMBDA r :
            IF r.exc # "none"
            THEN Raises(r.exc, r.msgs, log \o r.log)
            ELSE PosLoop(hp, self, args, i + 1, log \o r.log))

\* while arg_idx != num_arg: the remaining positional arguments against the
\* *args checker; arg_idx is 0-based.
VarLoop(hp, self, args, arg_idx, log) ==
    IF arg_idx = Len(args) THEN Returns(NoVal, log)
    ELSE Let(do_type_check(hp, self.varg_checker, args[arg_idx + 1],
                                Msg(MsgVarArg, arg_idx, "")), LAMBDA r :
            IF r.exc # "none"
            THEN Raises(r.exc, r.msgs, log \o r.log)
            ELSE VarLoop(hp, self, args, arg_idx + 1, log \o r.log))

RECURSIVE KwLoop_varkw_only(_, _, _, _, _)
\* The loop over kwargs.items() checking every keyword argument against the
\* **kwargs checker.
KwLoop_varkw_only(hp, self, kwargs, i, log) ==
    IF i > Len(kwargs) THEN Returns(NoVal, log)
    ELSE Let(do_type_check(hp, self.vkw_checker, kwargs[i].value,
                                Msg(MsgKwArg, -1, kwargs[i].name)), LAMBDA r :
            IF r.exc # "none"
            THEN Raises(r.exc, r.msgs, log \o r.log)
            ELSE KwLoop_varkw_only(hp, self, kwargs, i + 1, log \o r.log))

\* The loop over kwargs.items().
KwLoop(hp, self, kwargs, i, log) ==
    IF i > Len(kwargs) THEN Returns(NoVal, log)
    ELSE LET name == kwargs[i].name
             checker == IF name \in Names(self.arg_checkers)
                        THEN Lookup(self.arg_checkers, name)
                        ELSE IF name \in Names(self.kw_checkers)
                        THEN Lookup(self.kw_checkers, name)
                        ELSE self.vkw_checker
         IN  Let(do_type_check(hp, checker, kwargs[i].value, Msg(MsgKwArg, -1, name)),
                 LAMBDA r :
                    IF r.exc # "none"
                    THEN Raises(r.exc, r.msgs, log \o r.log)
                    ELSE KwLoop(hp, self, kwargs, i + 1, log \o r.log))

\* The body of `if self._check_args:` in __call__.
check_args_block(hp, self, args, kwargs) ==
    Let(PosLoop(hp, self, args, 1, <<>>), LAMBDA p :
        IF p.exc # "none" THEN p
        ELSE Let(VarLoop(hp, self, args, p.ret, p.log), LAMBDA v :
                IF v.exc # "none" THEN v
                ELSE KwLoop(hp, self, kwargs, 1, v.log)))

\* The entry of the log that stands for self._func(*args, **kwargs).
CallEntry == LogEntry(0, NoVal, Msg("self._func(*args, **kwargs)", -1, ""))

\* after_func with the return check run whatever check_return says.
after_func_always_checks(hp, self, out, log) ==
    IF out.exc # "none" THEN Raises(out.exc, <<>>, log)
    ELSE Let(do_type_check(hp, self.ret_checker, out.ret, Msg(MsgReturn, -1, "")), LAMBDA r :
            IF r.exc # "none"
            THEN Raises(r.exc, r.msgs, log \o r.log)
            ELSE Returns(out.ret, log \o r.log))

\* What __call__ does once self._func has come back with the outcome out
\* (exc, ret): the return check, then `return ret`.
after_func(hp, self, out, log) ==
    IF out.exc # "none" THEN Raises(out.exc, <<>>, log)
    ELSE IF self.check_return
    THEN Let(do_type_check(hp, self.ret_checker, out.ret, Msg(MsgReturn, -1, "")), LAMBDA r :
            IF r.exc # "none"
            THEN Raises(r.exc, r.msgs, log \o r.log)
            ELSE Returns(out.ret, log \o r.log))
    ELSE Returns(out.ret, log)

\* FuncCallTypeChecker.__call__ calling self._func before the argument
\* checks.
FuncCallTypeChecker_call_invokes_first(hp, self, args, kwargs, outs) ==
    Let(IF self.check_args THEN check_args_block(hp, self, args, kwargs)
        ELSE Returns(NoVal, <<>>),
        LAMBDA a :
            {IF a.exc # "none"
             THEN [res |-> Raises(a.exc, a.msgs, <<CallEntry>> \o a.log),
                   passed |-> <<[args |-> args, kwargs |-> kwargs]>>, outs |-> <<out>>]
             ELSE [res |-> after_func(hp, self, out, <<CallEntry>> \o a.log),
                   passed |-> <<[args |-> args, kwargs |-> kwargs]>>,
                   outs |-> <<out>>] : out \in outs})

\* FuncCallTypeChecker.__call__, given the outcomes outs that self._func can
\* have for these arguments: the set of outcomes of the call, each with the
\* arguments self._func was called with (passed, one entry per call) and
\* what it answered (outs).
FuncCallTypeChecker_call(hp, self, args, kwargs, outs) ==
    Let(IF self.check_args THEN check_args_block(hp, self, args, kwargs)
        ELSE Returns(NoVal, <<>>),
        LAMBDA a :
            IF a.exc # "none"
            THEN {[res |-> a, passed |-> <<>>, outs |-> <<>>]}
            ELSE {[res |-> after_func(hp, self, out, Append(a.log, CallEntry)),
                   passed |-> <<[args |-> args, kwargs |-> kwargs]>>,
                   outs |-> <<out>>] : out \in outs})

(***************************************************************************)
(* The wrapped callables.                                                  *)
(***************************************************************************)
\* Whether Python can bind the arguments to the parameters of func; when it
\* cannot, the call raises TypeError before the body runs.
Binds(func, args, kwargs) ==
    LET npos == Len(func.args)
        kwnames == Names(kwargs)
        ndef == Len(func.defaults)
    IN  /\ (Len(args) > npos => func.varargs # NoName)
        /\ \A n \in kwnames :
                \/ n \in Range(func.kwonlyargs)
                \/ \E i \in 1..npos : func.args[i] = n /\ i > Len(args)
                \/ (n \notin Range(func.args) /\ func.varkw # NoName)
        /\ \A i \in 1..npos :
                (i > Len(args) /\ i <= npos - ndef) => func.args[i] \in kwnames
        /\ \A i \in DOMAIN func.kwonlyargs :
                func.kwonlyargs[i] \notin Names(func.kwonlydefaults)
                    => func.kwonlyargs[i] \in kwnames

Numeric(x) == x.t \in {"int", "float", "bool"}
Iterable(x) == x.t \in {"tuple", "list", "set", "dict", "str"}

\* The objects iter(x) yields: the keys of a dict, the items of a tuple, a
\* list or a set, strs for a str (the strs of the model are not empty).
Elements(x) ==
    IF x.t = "dict" THEN x.keys
    ELSE IF x.t = "str" THEN <<x>>
    ELSE x.items

RECURSIVE SumTenths(_)
SumTenths(xs) == IF xs = <<>> THEN 0 ELSE Head(xs).v + SumTenths(Tail(xs))

RECURSIVE Flatten(_)
Flatten(xss) == IF xss = <<>> THEN <<>> ELSE Elements(Head(xss)) \o Flatten(Tail(xss))

\* The body of basic in test.py:
\*   a + sum(b) + sum(c) + sum(sum(_) for _ in d.values())
basic_body(args, kwargs) ==
    LET a == IF Len(args) >= 1 THEN args[1] ELSE Lookup(kwargs, "a")
        b == IF Len(args) >= 1 THEN Tail(args) ELSE <<>>
        c == Lookup(kwargs, "c")
        d == SelectSeq(kwargs, LAMBDA it : it.name \notin {"a", "c"})
        dvals == [i \in DOMAIN d |-> d[i].value]
        operands == <<a>> \o b \o Elements(c) \o Flatten(dvals)
    IN  IF /\ Iterable(c)
           /\ \A i \in DOMAIN dvals : Iterable(dvals[i])
           /\ \A i \in DOMAIN operands : Numeric(operands[i])
        THEN [exc |-> "none",
              ret |-> Scalar(IF \E i \in DOMAIN operands : operands[i].t = "float"
                             THEN "float" ELSE "int",
                             SumTenths(operands))]
        ELSE [exc |-> "TypeError", ret |-> NoVal]

\* The outcomes self._func(*args, **kwargs) can have.
func_call(func, args, kwargs) ==
    IF ~ Binds(func, args, kwargs) THEN {[exc |-> "TypeError", ret |-> NoVal]}
    ELSE IF func.name = "basic" THEN {basic_body(args, kwargs)}
    ELSE {[exc |-> "none", ret |-> r] : r \in func.returns}

(***************************************************************************)
(* Inputs of the model.                                                    *)
(***************************************************************************)
SeqsUpTo(S, n) == UNION {[1..m -> S] : m \in 0..n}
DistinctSeqsUpTo(S, n) == {q \in SeqsUpTo(S, n) : \A i, j \in DOMAIN q : q[i] = q[j] => i = j}

TupleIntFloat == TupleT(<<IntT, FloatT>>)
ListInt == ListT(IntT)

\* Descriptions asked of the registry.
RegistryDescs ==
    {IntT, FloatT, AnyT, NoneT, NoReturnT, BareTupleT, TupleIntFloat, ListInt,
     DictT(IntT, ListInt), FrozenSetT(IntT)}

\* Descriptions whose validators are run on values.
CheckDescs ==
    {IntT, BareTupleT, TupleIntFloat, TupleT(<<IntT>>), TupleT(<<AnyT, StrT, IntT>>),
     TupleT(<<ListInt, IntT>>), ListInt, ListT(AnyT), ListT(TupleIntFloat),
     DictT(StrT, IntT), DictT(IntT, ListInt), SetT(IntT)}

StrA == PyStr(1)
StrB == PyStr(2)
StrC == PyStr(3)
StrX == PyStr(24)
Scalars == {PyInt(1), PyInt(2), PyFloat(30), StrA, StrB, StrC, StrX, PyBool(1)}
DictKeys == {StrA, StrB, PyInt(1)}
DictVals == {PyInt(1), StrC}
NestedValues ==
    {PyTuple(<<PyList(<<PyInt(1), PyInt(2)>>), PyInt(1)>>),
     PyTuple(<<PyList(<<PyInt(1), StrX>>), PyInt(1)>>),
     PyTuple(<<PyList(<<PyInt(1), StrX>>), StrA>>),
     PyTuple(<<PyList(<<StrX>>), PyInt(1), PyInt(2)>>),
     PyList(<<PyTuple(<<PyInt(1), PyFloat(30)>>), PyTuple(<<PyInt(1), PyFloat(30)>>)>>),
     PyList(<<PyTuple(<<PyInt(1), PyFloat(30)>>), PyTuple(<<PyInt(1)>>), PyTuple(<<StrX, StrX>>)>>),
     PyList(<<PyTuple(<<PyFloat(30), PyInt(1)>>), PyInt(1)>>),
     PyDict(<<PyInt(1), PyInt(2)>>, <<PyList(<<PyInt(1)>>), PyList(<<StrX>>)>>),
     PyDict(<<PyInt(1), StrA>>, <<PyTuple(<<PyInt(1)>>), PyList(<<StrX>>)>>)}
Values ==
    Scalars \cup {PyNone} \cup NestedValues
    \cup {PyTuple(q) : q \in SeqsUpTo(Scalars, MaxLen)}
    \cup {PyList(q) : q \in SeqsUpTo(Scalars, MaxLen)}
    \cup {PySet(q) : q \in DistinctSeqsUpTo({PyInt(1), PyInt(2), StrX}, MaxLen)}
    \cup {PyDict(ks, xs) : <<ks, xs>> \in
            {p \in DistinctSeqsUpTo(DictKeys, MaxLen) \X SeqsUpTo(DictVals, MaxLen) :
                Len(p[1]) = Len(p[2])}}

(***************************************************************************)
(* State.  cache and heap are the registry; last records the last          *)
(* operation with its inputs and outcome; fc is the FuncCallTypeChecker    *)
(* built by type_check; invoked counts the times the wrapped callable's    *)
(* body is entered; threads are the frames of the threads inside           *)
(* get_type_checker.                                                       *)
(***************************************************************************)
NoFc == [state |-> "none"]
NoThreads == <<>>

InitRegistry ==
    /\ cache = EmptyCache
    /\ heap = ImportedHeap

(***************************************************************************)
(* Spec: a client calling get_type_checker.                                *)
(***************************************************************************)
Init ==
    /\ InitRegistry
    /\ last = [op |-> "none"]
    /\ fc = NoFc
    /\ invoked = 0
    /\ threads = NoThreads

GetTypeChecker(type) ==
    \E r \in {get_type_checker([cache |-> cache, heap |-> heap], type)} :
        /\ cache' = r.cache
        /\ heap' = r.heap
        /\ last' = [op |-> "get", type |-> type, ret |-> r.ret,
                    hit |-> type \in DOMAIN cache]
        /\ UNCHANGED <<fc, invoked, threads>>

Next == \E type \in RegistryDescs : GetTypeChecker(type)

Spec == Init /\ [][Next]_vars

(***************************************************************************)
(* SpecCheck: a validator obtained from the registry and run on a value.    *)
(***************************************************************************)
InitCheck ==
    \E type \in CheckDescs :
        \E r \in {get_type_checker(Imported, type)} :
            /\ cache = r.cache
            /\ heap = r.heap
            /\ last = [op |-> "get", type |-> type, ret |-> r.ret, hit |-> FALSE]
            /\ fc = NoFc
            /\ invoked = 0
            /\ threads = NoThreads

\* checker(obj) for the validator of the description chosen at the start.
TypeCheck(obj) ==
    LET type == last.type
        checker == cache[type]
    IN  /\ last.op = "get"
        /\ last' = [op |-> "check", type |-> type, ret |-> checker, hit |-> TRUE,
                    obj |-> obj, res |-> checker_call(heap, checker, obj)]
        /\ UNCHANGED <<cache, heap, fc, invoked, threads>>

NextCheck == \E obj \in Values : TypeCheck(obj)

SpecCheck == InitCheck /\ [][NextCheck]_vars

(***************************************************************************)
(* SpecCall: type_check applied to a callable, and a call of the result.   *)
(***************************************************************************)
\* basic of test.py:
\*   def basic(a: int, *b: float, c: Tuple[int, float], **d: List[int]) -> float
Basic ==
    [name |-> "basic", args |-> <<"a">>, varargs |-> "b", varkw |-> "d",
     defaults |-> <<>>, kwonlyargs |-> <<"c">>, kwonlydefaults |-> <<>>,
     annotations |-> ("a" :> IntT) @@ ("b" :> FloatT) @@ ("c" :> TupleIntFloat)
                     @@ ("d" :> ListInt) @@ ("return" :> FloatT),
     returns |-> {}]

\* def pos_default(a: int = "x") -> int
PosDefault ==
    [name |-> "pos_default", args |-> <<"a">>, varargs |-> NoName, varkw |-> NoName,
     defaults |-> <<StrX>>, kwonlyargs |-> <<>>, kwonlydefaults |-> <<>>,
     annotations |-> ("a" :> IntT) @@ ("return" :> IntT),
     returns |-> {PyInt(0)}]

\* def kw_default(*, c: int = "x") -> int
KwDefault ==
    [name |-> "kw_default", args |-> <<>>, varargs |-> NoName, varkw |-> NoName,
     defaults |-> <<>>, kwonlyargs |-> <<"c">>,
     kwonlydefaults |-> <<Item("c", StrX)>>,
     annotations |-> ("c" :> IntT) @@ ("return" :> IntT),
     returns |-> {PyInt(0)}]

\* def partly(a, e: float = 1.0, *, c: int = 2)
Partly ==
    [name |-> "partly", args |-> <<"a", "e">>, varargs |-> NoName, varkw |-> NoName,
     defaults |-> <<PyFloat(10)>>, kwonlyargs |-> <<"c">>,
     kwonlydefaults |-> <<Item("c", PyInt(2))>>,
     annotations |-> ("e" :> FloatT) @@ ("c" :> IntT),
     returns |-> {PyInt(0), PyNone}]

\* def plain(a: int, e: float) -> float
Plain ==
    [name |-> "plain", args |-> <<"a", "e">>, varargs |-> NoName, varkw |-> NoName,
     defaults |-> <<>>, kwonlyargs |-> <<>>, kwonlydefaults |-> <<>>,
     annotations |-> ("a" :> IntT) @@ ("e" :> FloatT) @@ ("return" :> FloatT),
     returns |-> {PyFloat(10), PyInt(0)}]

Funcs == {Basic, PosDefault, KwDefault, Partly, Plain}

ArgVals == {PyInt(0), PyFloat(10), PyFloat(11)}
List34 == PyList(<<PyInt(3), PyInt(4)>>)
List56 == PyList(<<PyInt(5), PyInt(6)>>)
Tuple23 == PyTuple(<<PyInt(2), PyFloat(30)>>)
Dict12 == PyDict(<<PyInt(1)>>, <<PyInt(2)>>)
KwNames == {"a", "c", "d0", "d1"}
KwVals(name) ==
    CASE name = "a" -> {PyInt(0), PyFloat(10)}
      [] name = "c" -> {Tuple23, Dict12, PyInt(2)}
      [] name = "d0" -> {List34, PyInt(3)}
      [] name = "d1" -> {List56}
Kwargs ==
    UNION {{[i \in DOMAIN names |-> Item(names[i], vals[i])] :
                vals \in {vs \in [DOMAIN names -> UNION {KwVals(n) : n \in KwNames}] :
                            \A i \in DOMAIN names : vs[i] \in KwVals(names[i])}} :
           names \in DistinctSeqsUpTo(KwNames, MaxKw)}

InitCall == Init

\* type_check(func, check_args=..., check_return=..., force_annotations=...)
\* with func given: builds the FuncCallTypeChecker held by the wrapper.
type_check(func, check_args, check_return, force_annotations) ==
    /\ fc = NoFc
    /\ last.op = "none"
    /\ \E r \in {FuncCallTypeChecker_init([cache |-> cache, heap |-> heap], func,
                                         check_args, check_return, force_annotations)} :
        /\ cache' = r.cache
        /\ heap' = r.heap
        /\ fc' = r.self
        /\ last' = [op |-> "type_check", func |-> func, check_args |-> check_args,
                    check_return |-> check_return,
                    force_annotations |-> force_annotations, res |-> r.res]
        /\ UNCHANGED <<invoked, threads>>

\* type_checked(*args, **kwargs): the wrapper calls checker(*args, **kwargs).
\* invoked counts the runs of the body of the wrapped callable: the body is
\* entered once for each call of self._func whose arguments bind, whether
\* it then returns or raises.
type_checked(args, kwargs) ==
    \E o \in FuncCallTypeChecker_call(heap, fc, args, kwargs,
                                      func_call(fc.func, args, kwargs)) :
        /\ last' = [op |-> "call", args |-> args, kwargs |-> kwargs,
                    res |-> o.res, passed |-> o.passed, outs |-> o.outs]
        /\ invoked' = invoked + (IF Binds(fc.func, args, kwargs) THEN Len(o.passed) ELSE 0)
        /\ UNCHANGED <<cache, heap, fc, threads>>

\* One call of the wrapper built by type_check.
Call ==
    /\ fc.state = "built"
    /\ last.op = "type_check"
    /\ \E args \in SeqsUpTo(ArgVals, MaxArgs), kwargs \in Kwargs :
            type_checked(args, kwargs)

NextCall ==
    \/ \E func \in Funcs, check_args, check_return, force_annotations \in BOOLEAN :
            type_check(func, check_args, check_return, force_annotations)
    \/ Call

SpecCall == InitCall /\ [][NextCall]_vars

(***************************************************************************)
(* SpecConc: threads calling get_type_checker with no lock.  A frame is    *)
(* one activation of get_type_checker: its argument type, its position pc  *)
(* ("test": the membership test of line 179, "create" and "kids": inside   *)
(* create_type_checker, "write": the store of line 180, "read": the        *)
(* return of line 181), the validator self under construction and the      *)
(* children kids obtained so far.  made is the set of validators the       *)
(* thread has created.                                                     *)
(***************************************************************************)
Threads == {1, 2}
TupleIntInt == TupleT(<<IntT, IntT>>)
DictIntListInt == DictT(IntT, ListInt)
ConcDescs == {IntT, AnyT, NoneT, NoReturnT, ListInt, TupleIntInt, DictIntListInt}

Frame(type) == [type |-> type, pc |-> "test", self |-> 0, kids |-> <<>>]
Top(t) == threads[t].stack[Len(threads[t].stack)]
SetTop(t, frame) ==
    [threads EXCEPT ![t].stack = [@ EXCEPT ![Len(@)] = frame]]
Running(t) == threads[t].stack # <<>>

\* The __args__ whose validators the __init__ of a container validator asks for.
ChildTypes(type) ==
    CASE type.name = "tuple" -> type.args
      [] type.name = "dict" -> <<type.args[1], type.args[2]>>
      [] OTHER -> <<type.args[1]>>

IsContainer(type) == type.k = "alias" /\ type.name \in DOMAIN alias_checkers

\* The children the __init__ of a container validator has stored in self
\* once it holds kids: a DictTypeChecker stores _key_checker as soon as it
\* has it, before it asks for the value validator, and _val_checker after;
\* the others make one store, once every child is there (for a tuple the
\* generator is run to its end first).
KidsStored(type, kids) ==
    IF type.name = "dict" \/ Len(kids) = Len(ChildTypes(type)) THEN kids ELSE <<>>

InitConc ==
    /\ InitRegistry
    /\ last = [op |-> "none"]
    /\ fc = NoFc
    /\ invoked = 0
    /\ threads = [t \in Threads |-> [state |-> "idle", type |-> NoneT, stack |-> <<>>,
                                     result |-> 0, made |-> {}, hit |-> FALSE]]

\* Thread t calls get_type_checker(type).
ThreadCall(t, type) ==
    /\ threads[t].state = "idle"
    /\ threads' = [threads EXCEPT ![t].state = "running", ![t].type = type,
                                  ![t].stack = <<Frame(type)>>]
    /\ UNCHANGED <<cache, heap, last, fc, invoked>>

\* The membership test always finding the description absent.
ThreadTest_always_absent(t) ==
    /\ Running(t) /\ Top(t).pc = "test"
    /\ threads' = SetTop(t, [Top(t) EXCEPT !.pc = "create"])
    /\ UNCHANGED <<cache, heap, last, fc, invoked>>

\* if type_ not in cache
ThreadTest(t) ==
    /\ Running(t) /\ Top(t).pc = "test"
    /\ threads' = [SetTop(t, [Top(t) EXCEPT !.pc = IF Top(t).type \in DOMAIN cache
                                                   THEN "read" ELSE "create"])
                    EXCEPT ![t].hit = IF Len(threads[t].stack) = 1
                                      THEN Top(t).type \in DOMAIN cache ELSE @]
    /\ UNCHANGED <<cache, heap, last, fc, invoked>>

\* create_type_checker up to the creation of the validator object.
ThreadCreate(t) ==
    /\ Running(t) /\ Top(t).pc = "create"
    /\ LET type == Top(t).type
           R == [cache |-> cache, heap |-> heap]
       IN  IF IsContainer(type)
           THEN LET c == TypeChecker_init(R, alias_checkers[type.name], type)
                IN  /\ heap' = c.heap
                    /\ threads' = [SetTop(t, [Top(t) EXCEPT !.pc = "kids", !.self = c.ret])
                                    EXCEPT ![t].made = @ \cup {c.ret}]
           ELSE LET c == create_type_checker(R, type)
                IN  /\ heap' = c.heap
                    /\ threads' = [SetTop(t, [Top(t) EXCEPT !.pc = "write", !.self = c.ret])
                                    EXCEPT ![t].made = @ \cup (DOMAIN c.heap \ DOMAIN heap)]
    /\ UNCHANGED <<cache, last, fc, invoked>>

\* The __init__ of a container validator, from where it stands to its next
\* nested call of get_type_checker or to its end: the store of the child
\* just obtained where the code makes one (see KidsStored), then the call
\* for the next child or, once every child is there, the return of the
\* validator to create_type_checker.
ThreadKids(t) ==
    /\ Running(t) /\ Top(t).pc = "kids"
    /\ LET frame == Top(t)
           ts == ChildTypes(frame.type)
       IN  /\ heap' = [heap EXCEPT ![frame.self].kids = KidsStored(frame.type, frame.kids)]
           /\ threads' = IF Len(frame.kids) < Len(ts)
                         THEN [threads EXCEPT ![t].stack =
                                    Append(@, Frame(ts[Len(frame.kids) + 1]))]
                         ELSE SetTop(t, [frame EXCEPT !.pc = "write"])
    /\ UNCHANGED <<cache, last, fc, invoked>>

\* cache[type_] = create_type_checker(type_)
ThreadWrite(t) ==
    /\ Running(t) /\ Top(t).pc = "write"
    /\ cache' = (Top(t).type :> Top(t).self) @@ cache
    /\ threads' = SetTop(t, [Top(t) EXCEPT !.pc = "read"])
    /\ UNCHANGED <<heap, last, fc, invoked>>

\* return cache[type_]: to the caller, the thread's client or the __init__
\* of the parent frame.
ThreadRead(t) ==
    /\ Running(t) /\ Top(t).pc = "read"
    /\ LET ret == cache[Top(t).type]
           n == Len(threads[t].stack)
       IN  threads' =
            IF n = 1
            THEN [threads EXCEPT ![t].stack = <<>>, ![t].result = ret, ![t].state = "done"]
            ELSE [threads EXCEPT ![t].stack =
                    [SubSeq(@, 1, n - 1) EXCEPT ![n - 1].kids = Append(@, ret)]]
    /\ UNCHANGED <<cache, heap, last, fc, invoked>>

NextConc ==
    \E t \in Threads :
        \/ \E type \in ConcDescs : ThreadCall(t, type)
        \/ ThreadTest(t)
        \/ ThreadCreate(t)
        \/ ThreadKids(t)
        \/ ThreadWrite(t)
        \/ ThreadRead(t)

SpecConc == InitConc /\ [][NextConc]_vars

(***************************************************************************)
(* Properties of the registry.                                             *)
(***************************************************************************)

\* C1: the cache is append-only (an entry once stored is never replaced or
\* removed by a later call, for the same or another description) and every
\* call get_type_checker(D) returns the entry of D, hence the instance the
\* first call for D returned.
C1_RegistryIdentity ==
    [][/\ \A d \in DOMAIN cache : d \in DOMAIN cache' /\ cache'[d] = cache[d]
       /\ last'.op = "get" =>
            /\ last'.type \in DOMAIN cache'
            /\ last'.ret = cache'[last'.type]
            /\ last'.ret \in DOMAIN heap']_vars

\* A call that found its description in a cache holding several entries.
C1_Witness ==
    /\ last.op = "get"
    /\ last.hit
    /\ last.type = TupleIntFloat
    /\ DictT(IntT, ListInt) \in DOMAIN cache
    /\ Cardinality(DOMAIN cache) >= 5

(***************************************************************************)
(* Properties of the validators.                                           *)
(***************************************************************************)
Passes(hp, checker, obj) == checker_call(hp, checker, obj).exc = "none"

\* The log of do_type_check(checker[i], objs[i], message[i]) for i = 1..n,
\* each entry followed by the log of the checks nested in it.
RECURSIVE LogOf(_, _, _, _, _)
LogOf(hp, checkers, objs, messages, n) ==
    IF n = 0 THEN <<>>
    ELSE LogOf(hp, checkers, objs, messages, n - 1)
         \o <<LogEntry(checkers[n], objs[n], messages[n])>>
         \o checker_call(hp, checkers[n], objs[n]).log

\* C6: a TupleTypeChecker of n slots raises TypeCheckError, without running
\* any element validator, for every value that is not a tuple and every
\* tuple whose length is not n; it accepts a tuple of length n iff element i
\* passes child validator i for every i, and then returns the value itself.
C6_TupleArity ==
    (last.op = "check" /\ heap[last.ret].cls = "TupleTypeChecker") =>
        LET self == heap[last.ret]
            n == Len(self.type.args)
            obj == last.obj
            r == last.res
        IN  /\ Len(self.kids) = n
            /\ (obj.t # "tuple" \/ Len(obj.items) # n) =>
                    (r.exc = "TypeCheckError" /\ r.log = <<>>)
            /\ (obj.t = "tuple" /\ Len(obj.items) = n) =>
                    ((r.exc = "none") <=>
                        \A i \in 1..n : Passes(heap, self.kids[i], obj.items[i]))
            /\ r.exc = "none" => r.ret = obj

\* A tuple of the wrong length whose elements would each pass, rejected.
C6_Witness ==
    /\ last.op = "check"
    /\ last.type = TupleIntFloat
    /\ last.obj = PyTuple(<<PyInt(1), PyFloat(30), PyFloat(30)>>)
    /\ last.res.exc = "TypeCheckError"
    /\ last.res.log = <<>>

\* The smallest index of objs whose element fails checker, 0 when none does.
FirstFailing(hp, checker, objs) ==
    IF \A i \in DOMAIN objs : Passes(hp, checker, objs[i]) THEN 0
    ELSE CHOOSE i \in DOMAIN objs :
            /\ ~ Passes(hp, checker, objs[i])
            /\ \A j \in 1..(i - 1) : Passes(hp, checker, objs[j])

\* C7: a ListTypeChecker run on a list fails iff some element fails the
\* element validator; the elements are checked in index order up to and
\* including the first failing one, at 0-based index i, and no further; the
\* error raised carries the message naming element #i and is chained to the
\* error of the element validator.
C7_ListPropagation ==
    (last.op = "check" /\ heap[last.ret].cls = "ListTypeChecker"
        /\ last.obj.t = "list") =>
        LET checker == heap[last.ret].kids[1]
            objs == last.obj.items
            r == last.res
            f == FirstFailing(heap, checker, objs)
            n == IF f = 0 THEN Len(objs) ELSE f
        IN  /\ (r.exc # "none") <=> (f # 0)
            /\ r.log = LogOf(heap, [i \in 1..n |-> checker], objs,
                             [i \in 1..n |-> Msg(MsgElem, i - 1, "")], n)
            /\ f # 0 =>
                /\ r.msgs = <<Msg(MsgElem, f - 1, "")>>
                            \o checker_call(heap, checker, objs[f]).msgs
                /\ Len(r.msgs) >= 2
            /\ f = 0 => r.ret = last.obj

\* list-of-int on [1, 2, "x"] fails naming index 2.
C7_Witness ==
    /\ last.op = "check"
    /\ last.type = ListInt
    /\ last.obj = PyList(<<PyInt(1), PyInt(2), StrX>>)
    /\ last.res.exc = "TypeCheckError"
    /\ last.res.msgs[1] = Msg(MsgElem, 2, "")

\* The first entry of a dict whose key or value fails, 0 when none does.
FirstFailingEntry(hp, key_checker, val_checker, obj) ==
    LET Good(i) == /\ Passes(hp, key_checker, obj.keys[i])
                   /\ Passes(hp, val_checker, obj.items[i])
    IN  IF \A i \in DOMAIN obj.keys : Good(i) THEN 0
        ELSE CHOOSE i \in DOMAIN obj.keys :
                ~ Good(i) /\ \A j \in 1..(i - 1) : Good(j)

\* C8: a DictTypeChecker run on a dict succeeds iff every key passes the key
\* validator and every value the value validator; the entries are checked
\* in order, the key before the value, and the first failure ends the check
\* with the message about a key when the key failed and about a value when
\* the value failed.
C8_DictValidation ==
    (last.op = "check" /\ heap[last.ret].cls = "DictTypeChecker"
        /\ last.obj.t = "dict") =>
        LET kc == heap[last.ret].kids[1]
            vc == heap[last.ret].kids[2]
            obj == last.obj
            r == last.res
            f == FirstFailingEntry(heap, kc, vc, obj)
            keyFailed == f # 0 /\ ~ Passes(heap, kc, obj.keys[f])
            full == IF f = 0 THEN Len(obj.keys) ELSE f - 1
            \* the checks of entries 1..full, key then value
            interleaved == LogOf(heap,
                                 [i \in 1..(2 * full) |-> IF i % 2 = 1 THEN kc ELSE vc],
                                 [i \in 1..(2 * full) |-> IF i % 2 = 1 THEN obj.keys[(i + 1) \div 2]
                                                          ELSE obj.items[i \div 2]],
                                 [i \in 1..(2 * full) |-> IF i % 2 = 1 THEN Msg(MsgKey, -1, "")
                                                          ELSE Msg(MsgVal, -1, "")],
                                 2 * full)
        IN  /\ (r.exc = "none") <=>
                    \A i \in DOMAIN obj.keys : /\ Passes(heap, kc, obj.keys[i])
                                               /\ Passes(heap, vc, obj.items[i])
            /\ f = 0 => (r.ret = obj /\ r.log = interleaved)
            /\ keyFailed =>
                /\ r.msgs[1] = Msg(MsgKey, -1, "")
                /\ r.log = interleaved
                        \o LogOf(heap, <<kc>>, <<obj.keys[f]>>, <<Msg(MsgKey, -1, "")>>, 1)
            /\ (f # 0 /\ ~ keyFailed) =>
                /\ r.msgs[1] = Msg(MsgVal, -1, "")
                /\ r.log = interleaved
                        \o LogOf(heap, <<kc, vc>>, <<obj.keys[f], obj.items[f]>>,
                                 <<Msg(MsgKey, -1, ""), Msg(MsgVal, -1, "")>>, 2)

\* dict-of-(str, int) on {"a": 1, "b": "c"} fails on the value of key "b".
C8_Witness ==
    /\ last.op = "check"
    /\ last.type = DictT(StrT, IntT)
    /\ last.obj = PyDict(<<StrA, StrB>>, <<PyInt(1), StrC>>)
    /\ last.res.exc = "TypeCheckError"
    /\ last.res.msgs[1] = Msg(MsgVal, -1, "")
    /\ last.res.log[Len(last.res.log)].obj = StrC

(***************************************************************************)
(* Properties of FuncCallTypeChecker.                                      *)
(***************************************************************************)
\* Whether value conforms to the validator of the description type.
Conforms(value, type) ==
    LET r == get_type_checker(Imported, type)
    IN  Passes(r.heap, r.ret, value)

\* The declared default of the i-th positional parameter, for the trailing
\* parameters that have one.
HasDefault(func, i) == i > Len(func.args) - Len(func.defaults)
DefaultOf(func, i) == func.defaults[i - (Len(func.args) - Len(func.defaults))]

BadPositionalDefault(func) ==
    \E i \in DOMAIN func.args :
        /\ HasDefault(func, i)
        /\ ~ Conforms(DefaultOf(func, i), dict_get(func.annotations, func.args[i]))

BadKeywordOnlyDefault(func) ==
    \E i \in DOMAIN func.kwonlydefaults :
        ~ Conforms(func.kwonlydefaults[i].value,
                   dict_get(func.annotations, func.kwonlydefaults[i].name))

\* C2: constructing a FuncCallTypeChecker for a callable with a positional
\* or keyword-only parameter whose default does not conform to the
\* parameter's validator fails with TypeCheckError at construction.
C2_DefaultEagerCheck ==
    (last.op = "type_check"
        /\ (BadPositionalDefault(last.func) \/ BadKeywordOnlyDefault(last.func))) =>
        (last.res.exc = "TypeCheckError" /\ fc.state = "failed")

\* The declared parameters of func, and the return.
Declared(func) ==
    Range(func.args) \cup Range(func.kwonlyargs)
    \cup ({func.varargs, func.varkw} \ {NoName}) \cup {"return"}

Unannotated(func) == {n \in Declared(func) : n \notin DOMAIN func.annotations}

\* The checker fc holds for the declared name n.
CheckerOf(self, n) ==
    IF n \in Names(self.arg_checkers) THEN Lookup(self.arg_checkers, n)
    ELSE IF n \in Names(self.kw_checkers) THEN Lookup(self.kw_checkers, n)
    ELSE IF n = self.func.varargs THEN self.varg_checker
    ELSE IF n = self.func.varkw THEN self.vkw_checker
    ELSE self.ret_checker

\* C3: with force_annotation, a declared parameter (or the return) without
\* annotation makes construction fail; without force_annotation it gets the
\* accept-all validator and construction succeeds (unless a default is bad).
C3_ForcedAnnotations ==
    (last.op = "type_check" /\ Unannotated(last.func) # {}) =>
        /\ last.force_annotations => (last.res.exc # "none" /\ fc.state = "failed")
        /\ (~ last.force_annotations /\ ~ BadKeywordOnlyDefault(last.func)
                /\ ~ BadPositionalDefault(last.func)) =>
                /\ fc.state = "built"
                /\ \A n \in Unannotated(last.func) : CheckerOf(fc, n) = EmptyTypeChecker

\* The validator the registry holds for the annotation of the name n.
ValidatorOf(func, n) == cache[dict_get(func.annotations, n)]

\* The checks the arguments are routed to, in order: positional argument i
\* to the i-th positional parameter or, beyond them, to *args; a keyword
\* argument to the positional parameter of its name, else the keyword-only
\* parameter of its name, else **kwargs.
PlanCheckers(func, args, kwargs) ==
    [i \in 1..Len(args) |->
        IF i <= Len(func.args) THEN ValidatorOf(func, func.args[i])
        ELSE ValidatorOf(func, func.varargs)]
    \o [j \in 1..Len(kwargs) |->
        IF kwargs[j].name \in Range(func.args) THEN ValidatorOf(func, kwargs[j].name)
        ELSE IF kwargs[j].name \in Range(func.kwonlyargs) THEN ValidatorOf(func, kwargs[j].name)
        ELSE ValidatorOf(func, func.varkw)]

PlanObjs(args, kwargs) == args \o [j \in 1..Len(kwargs) |-> kwargs[j].value]

PlanMessages(func, args, kwargs) ==
    [i \in 1..Len(args) |->
        IF i <= Len(func.args) THEN Msg(MsgPosArg, -1, func.args[i])
        ELSE Msg(MsgVarArg, i - 1, "")]
    \o [j \in 1..Len(kwargs) |-> Msg(MsgKwArg, -1, kwargs[j].name)]

\* The position of the first check of the plan that fails, 0 when none.
FirstFailingCheck(hp, checkers, objs) ==
    IF \A i \in DOMAIN objs : Passes(hp, checkers[i], objs[i]) THEN 0
    ELSE CHOOSE i \in DOMAIN objs :
            /\ ~ Passes(hp, checkers[i], objs[i])
            /\ \A j \in 1..(i - 1) : Passes(hp, checkers[j], objs[j])

\* The positions of the log that stand for calls of self._func.
CallPositions(log) == {i \in DOMAIN log : log[i] = CallEntry}

\* The part of the log before the first call of self._func.
ArgPhase(log) ==
    IF CallPositions(log) = {} THEN log
    ELSE SubSeq(log, 1, (CHOOSE i \in CallPositions(log) :
                            \A j \in CallPositions(log) : i <= j) - 1)

\* C4: with both checks enabled, a failing argument validation means the
\* callable is never invoked; otherwise it is invoked exactly once, after
\* every argument check (its body is entered once when the arguments bind,
\* never when they do not), and the return validator runs only once it has
\* returned; a failing return validation raises after the body has run and
\* the result is not returned.
C4_CheckBeforeInvoke ==
    (last.op = "call" /\ fc.check_args /\ fc.check_return) =>
        LET checkers == PlanCheckers(fc.func, last.args, last.kwargs)
            objs == PlanObjs(last.args, last.kwargs)
            f == FirstFailingCheck(heap, checkers, objs)
            log == last.res.log
            calls == CallPositions(log)
            returned == last.outs # <<>> /\ last.outs[1].exc = "none"
        IN  /\ f # 0 =>
                /\ calls = {} /\ last.passed = <<>> /\ invoked = 0
                /\ last.res.exc = "TypeCheckError"
            /\ f = 0 =>
                /\ Cardinality(calls) = 1 /\ Len(last.passed) = 1
                /\ \A i \in DOMAIN log :
                        (log[i].message.text = MsgReturn) <=>
                            (returned /\ i = Len(ArgPhase(log)) + 2)
                /\ \A i \in DOMAIN log :
                        log[i].message.text \in {MsgPosArg, MsgVarArg, MsgKwArg}
                            => i <= Len(ArgPhase(log))
                /\ invoked = IF Binds(fc.func, last.args, last.kwargs) THEN 1 ELSE 0
                /\ returned => invoked = 1
            /\ (f = 0 /\ returned /\ ~ Passes(heap, fc.ret_checker, last.outs[1].ret)) =>
                /\ invoked = 1
                /\ last.res.exc = "TypeCheckError"
                /\ last.res.msgs[1] = Msg(MsgReturn, -1, "")
                /\ last.res.ret = NoVal
            /\ (f = 0 /\ returned /\ Passes(heap, fc.ret_checker, last.outs[1].ret)) =>
                /\ last.res.exc = "none"
                /\ last.res.ret = last.outs[1].ret

\* plain(0, 1.0) returning an int: the body ran, the return check failed.
C4_Witness ==
    /\ last.op = "call" /\ fc.check_args /\ fc.check_return
    /\ fc.func = Plain
    /\ last.args = <<PyInt(0), PyFloat(10)>>
    /\ last.outs = <<[exc |-> "none", ret |-> PyInt(0)]>>
    /\ invoked = 1
    /\ last.res.exc = "TypeCheckError"

\* C5: with argument checking enabled, the arguments are checked in order
\* against the validators they are routed to (see PlanCheckers), *args and
\* **kwargs being accept-all when not declared, up to the first failure;
\* the call raises TypeCheckError iff one of these checks fails.
C5_ArgumentRouting ==
    (last.op = "call" /\ fc.check_args) =>
        LET checkers == PlanCheckers(fc.func, last.args, last.kwargs)
            objs == PlanObjs(last.args, last.kwargs)
            messages == PlanMessages(fc.func, last.args, last.kwargs)
            f == FirstFailingCheck(heap, checkers, objs)
            n == IF f = 0 THEN Len(objs) ELSE f
        IN  /\ ArgPhase(last.res.log) = LogOf(heap, checkers, objs, messages, n)
            /\ (f # 0) <=> (last.passed = <<>>)
            /\ f # 0 => (last.res.exc = "TypeCheckError" /\ last.res.msgs[1] = messages[f])
            /\ fc.func.varargs = NoName => ValidatorOf(fc.func, fc.func.varargs) = EmptyTypeChecker
            /\ fc.func.varkw = NoName => ValidatorOf(fc.func, fc.func.varkw) = EmptyTypeChecker

\* basic(0, 1.0, 1.1, c=(2, 3.0), d0=[3, 4], d1=[5, 6]) passes with 25.1.
C5_Witness ==
    /\ last.op = "call" /\ fc.check_args /\ fc.check_return
    /\ fc.func = Basic
    /\ last.args = <<PyInt(0), PyFloat(10), PyFloat(11)>>
    /\ last.kwargs = <<Item("c", Tuple23), Item("d0", List34), Item("d1", List56)>>
    /\ last.res.exc = "none"
    /\ last.res.ret = PyFloat(251)
    /\ Len(ArgPhase(last.res.log)) = 12

\* C10: with check_args false no argument validator runs and the callable
\* gets the arguments unchanged; with check_return false the result of the
\* callable is returned without a return check; with check_args false and
\* check_return true the return check still runs, and with check_args true
\* and check_return false the arguments are still checked.
C10_CheckSwitches ==
    last.op = "call" =>
        LET log == last.res.log
            returned == last.outs # <<>> /\ last.outs[1].exc = "none"
            objs == PlanObjs(last.args, last.kwargs)
        IN  /\ ~ fc.check_args =>
                /\ ArgPhase(log) = <<>>
                /\ last.passed = <<[args |-> last.args, kwargs |-> last.kwargs]>>
            /\ (~ fc.check_return /\ returned) =>
                /\ log[Len(log)] = CallEntry
                /\ last.res.exc = "none"
                /\ last.res.ret = last.outs[1].ret
            /\ (~ fc.check_args /\ fc.check_return /\ returned) =>
                /\ Len(log) >= 2
                /\ log[2] = LogEntry(fc.ret_checker, last.outs[1].ret, Msg(MsgReturn, -1, ""))
                /\ (last.res.exc = "none") <=> Passes(heap, fc.ret_checker, last.outs[1].ret)
            /\ (fc.check_args /\ ~ fc.check_return /\ objs # <<>>) =>
                /\ ArgPhase(log) # <<>>
                /\ ArgPhase(log)[1].obj = objs[1]
            /\ last.passed # <<>> =>
                last.passed = <<[args |-> last.args, kwargs |-> last.kwargs]>>

\* plain(1.0, 0) with check_args off and check_return on: the wrong argument
\* types go through to the callable and the return check rejects its int.
C10_Witness ==
    /\ last.op = "call" /\ ~ fc.check_args /\ fc.check_return
    /\ fc.func = Plain
    /\ last.args = <<PyFloat(10), PyInt(0)>>
    /\ last.outs = <<[exc |-> "none", ret |-> PyInt(0)]>>
    /\ last.res.exc = "TypeCheckError"

(***************************************************************************)
(* Properties of get_type_checker under concurrency.                       *)
(***************************************************************************)
\* The validators created for the description type.
InstancesFor(type) == {i \in DOMAIN heap : i # EmptyTypeChecker /\ heap[i].type = type}

\* The descriptions create_type_checker answers with the accept-all
\* singleton, creating nothing.
AcceptAllDescs == {AnyT, NoReturnT, NoneT}

\* The validators a call for type can return.
ValidatorsFor(type) ==
    IF type \in AcceptAllDescs THEN {EmptyTypeChecker} ELSE InstancesFor(type)

Done(t) == threads[t].state = "done"

\* C9 as claimed: in every interleaving at most one validator is created
\* for a description and two calls for it return the same instance.
C9_OneValidatorPerDescription ==
    /\ \A type \in ConcDescs : Cardinality(InstancesFor(type)) <= 1
    /\ \A t1, t2 \in Threads :
            (Done(t1) /\ Done(t2) /\ threads[t1].type = threads[t2].type)
                => threads[t1].result = threads[t2].result

\* C9 as amended: each thread creates at most one validator for a
\* description, so at most one per thread exists, and none is created for
\* Any, NoReturn or None; every validator is created by one of the threads;
\* a call for D returns a validator created for D (the accept-all singleton
\* for Any, NoReturn and None), the cache holds such a validator once
\* written, and two calls for D return the same instance whenever one of
\* them found D in the cache.
C9_OneValidatorPerThread ==
    /\ \A type \in ConcDescs :
        /\ Cardinality(InstancesFor(type)) <= Cardinality(Threads)
        /\ \A t \in Threads : Cardinality(InstancesFor(type) \cap threads[t].made) <= 1
        /\ InstancesFor(type) \subseteq UNION {threads[t].made : t \in Threads}
        /\ type \in AcceptAllDescs => InstancesFor(type) = {}
        /\ type \in DOMAIN cache => cache[type] \in ValidatorsFor(type)
    /\ \A t \in Threads :
        Done(t) => threads[t].result \in ValidatorsFor(threads[t].type)
    /\ \A t1, t2 \in Threads :
            (Done(t1) /\ Done(t2) /\ threads[t1].type = threads[t2].type
                /\ (threads[t1].hit \/ threads[t2].hit))
                => threads[t1].result = threads[t2].result

\* Both threads asked for List[int], both found it absent, and they came
\* back with two different validators.
C9_Witness ==
    /\ \A t \in Threads : Done(t) /\ threads[t].type = ListInt /\ ~ threads[t].hit
    /\ threads[1].result # threads[2].result
    /\ Cardinality(InstancesFor(ListInt)) = 2

====
